---- MODULE Spec2Model ----
(***************************************************************************)
(* Model of the tree-sitter AST extraction script                          *)
(* (src/scripts/extract_python_ast.py) and of the CodeNet pair extractor   *)
(* (src/scripts/extract_codenet_data.py).                                  *)
(*                                                                         *)
(* Text is modelled as Python models it: a bytes object is a sequence of   *)
(* integers 0..255, a str is a sequence of code points.                    *)
(***************************************************************************)
EXTENDS Integers, Sequences, FiniteSets, TLC

VARIABLES
    \* ---- extract_python_ast.main ----
    pc,          \* position of main
    argv,        \* sys.argv[1:], <<>> or <<path>>
    srcFile,     \* the file at sys.argv[1]: Missing or its bytes
    code,        \* local `code` (str)
    tree,        \* local `tree` (its root_node)
    readable,    \* local `readable` (str)
    ast_dict,    \* local `ast_dict`
    outputFile,  \* the file at OUTPUT_FILE
    outputFile0, \* the file at OUTPUT_FILE when the run started
    exitStatus,  \* process exit status once pc = "exit"
    exc,         \* what ended the run: "none", "SystemExit" or the uncaught exception
    log,         \* the pipeline steps taken so far, in order
    frames,      \* deepest nesting of calls of each traversal
    \* ---- node_to_dict / print_tree called on an arbitrary node ----
    fpc, fnode, fresult,
    \* ---- extract_codenet_data.main ----
    cpc,          \* position of main
    problem_list, \* problem_list.csv: Missing or its ids
    idx,          \* number of entries of problem_ids the loop has consumed
    cur,          \* the metadata and files of the entry consumed last
    out           \* the lines written to OUTPUT_FILE

mainVars == <<pc, argv, srcFile, code, tree, readable, ast_dict, outputFile,
              outputFile0, exitStatus, exc, log, frames>>
fnVars == <<fpc, fnode, fresult>>
cnVars == <<cpc, problem_list, idx, cur, out>>
vars == <<mainVars, fnVars, cnVars>>

-----------------------------------------------------------------------------
(* Bounds *)

\* largest number of nodes of a syntax tree
MaxNodes == 6
\* largest number of entries of problem_list.csv
MaxProblems == 2

-----------------------------------------------------------------------------
(* bytes and str *)

Range(s) == {s[i] : i \in 1..Len(s)}

RECURSIVE Concat(_)
Concat(ss) == IF ss = <<>> THEN <<>> ELSE Head(ss) \o Concat(Tail(ss))

\* bytes.decode("utf-8") in strict mode, for one- and two-byte sequences (the
\* only well-formed ones over the byte alphabet used here): whether it raises
\* UnicodeDecodeError
RECURSIVE IsValidUtf8(_)
IsValidUtf8(b) ==
    IF b = <<>> THEN TRUE
    ELSE IF b[1] < 128 THEN IsValidUtf8(Tail(b))
    ELSE IF b[1] >= 194 /\ b[1] <= 223 /\ Len(b) >= 2 /\ b[2] >= 128 /\ b[2] <= 191
         THEN IsValidUtf8(Tail(Tail(b)))
    ELSE FALSE

\* bytes.decode("utf-8") on well-formed input: the code points
RECURSIVE Utf8Decode(_)
Utf8Decode(b) ==
    IF b = <<>> THEN <<>>
    ELSE IF b[1] < 128 THEN <<b[1]>> \o Utf8Decode(Tail(b))
    ELSE <<(b[1] - 192) * 64 + (b[2] - 128)>> \o Utf8Decode(Tail(Tail(b)))

\* str.encode("utf-8"), for code points below 0x800
RECURSIVE Utf8Encode(_)
Utf8Encode(s) ==
    IF s = <<>> THEN <<>>
    ELSE IF s[1] < 128 THEN <<s[1]>> \o Utf8Encode(Tail(s))
    ELSE <<192 + (s[1] \div 64), 128 + (s[1] % 64)>> \o Utf8Encode(Tail(s))

\* one character of repr(str) inside quotes q
ReprChar(c, q) ==
    IF c = 92 THEN <<92, 92>>
    ELSE IF c = q THEN <<92, q>>
    ELSE IF c = 10 THEN <<92, 110>>
    ELSE IF c = 13 THEN <<92, 114>>
    ELSE IF c = 9 THEN <<92, 116>>
    ELSE <<c>>

\* repr(str), the !r conversion of an f-string: single quotes, unless the
\* text holds a single quote and no double quote
PyRepr(s) ==
    LET q == IF 39 \in Range(s) /\ 34 \notin Range(s) THEN 34 ELSE 39
    IN <<q>> \o Concat([i \in 1..Len(s) |-> ReprChar(s[i], q)]) \o <<q>>

\* the characters of a grammar symbol name
TypeChars(type) ==
    CASE type = "module" -> <<109, 111, 100, 117, 108, 101>>
      [] type = "block" -> <<98, 108, 111, 99, 107>>
      [] type = "identifier" -> <<105, 100, 101, 110, 116, 105, 102, 105, 101, 114>>
      [] type = "string_content" -> <<115, 116, 114, 105, 110, 103, 95, 99, 111, 110, 116, 101, 110, 116>>
      [] type = "string_start" -> <<115, 116, 114, 105, 110, 103, 95, 115, 116, 97, 114, 116>>
      [] type = "ERROR" -> <<69, 82, 82, 79, 82>>

Spaces(n) == [i \in 1..n |-> 32]

\* sep.join(parts)
RECURSIVE Join(_, _)
Join(parts, sep) ==
    IF parts = <<>> THEN <<>>
    ELSE IF Len(parts) = 1 THEN parts[1]
    ELSE parts[1] \o <<sep>> \o Join(Tail(parts), sep)

-----------------------------------------------------------------------------
(* Syntax trees, as tree-sitter hands them to the script.  A node has a     *)
(* type, start_point and end_point (row, column in bytes), the bytes of    *)
(* the source it spans (text) and its children; child_count is their       *)
(* number.                                                                 *)

\* leaf texts of well-formed sources: a, newline, e-acute, single quote
ValidTexts == << <<97>>, <<10>>, <<195, 169>>, <<39>> >>
\* leaf texts a caller may hand to the traversals: also ill-formed UTF-8
AnyTexts == ValidTexts \o << <<255>>, <<195>> >>

LeafType(text) ==
    IF ~IsValidUtf8(text) THEN "ERROR"
    ELSE IF text = <<10>> THEN "string_content"
    ELSE IF text = <<39>> THEN "string_start"
    ELSE "identifier"

\* the point after `bytes`, starting from point pt
RECURSIVE Advance(_, _)
Advance(pt, bytes) ==
    IF bytes = <<>> THEN pt
    ELSE Advance(IF bytes[1] = 10 THEN [row |-> pt.row + 1, column |-> 0]
                 ELSE [row |-> pt.row, column |-> pt.column + 1], Tail(bytes))

\* tree shapes of n nodes; a shape is the sequence of its children's shapes
RECURSIVE TreesOfSize(_), Forests(_)
TreesOfSize(n) == IF n = 1 THEN {<<>>} ELSE Forests(n - 1)
Forests(m) ==
    IF m = 0 THEN {<<>>}
    ELSE UNION {{<<t>> \o f : t \in TreesOfSize(k), f \in Forests(m - k)} : k \in 1..m}

Shapes == UNION {TreesOfSize(n) : n \in 1..MaxNodes}

\* The tree of shape `shape` whose k-th leaf (in source order) holds
\* texts[(k + off) mod Len(texts)], laid out from point pt.  The root is a
\* "module"; the root of the empty source has no children and spans nothing.
\* Returns the node, the number of leaves used and the point reached.
RECURSIVE Build(_, _, _, _, _, _), BuildKids(_, _, _, _, _)
Build(shape, isRoot, k, pt, texts, off) ==
    IF shape = <<>> THEN
        LET text == IF isRoot THEN <<>> ELSE texts[((k + off) % Len(texts)) + 1]
            end == Advance(pt, text)
        IN [node |-> [type |-> IF isRoot THEN "module" ELSE LeafType(text),
                      start_point |-> pt, end_point |-> end,
                      text |-> text, children |-> <<>>],
            k |-> IF isRoot THEN k ELSE k + 1, pt |-> end]
    ELSE
        LET ks == BuildKids(shape, k, pt, texts, off)
        IN [node |-> [type |-> IF isRoot THEN "module" ELSE "block",
                      start_point |-> pt, end_point |-> ks.pt,
                      text |-> Concat([i \in 1..Len(ks.nodes) |-> ks.nodes[i].text]),
                      children |-> ks.nodes],
            k |-> ks.k, pt |-> ks.pt]
BuildKids(shapes, k, pt, texts, off) ==
    IF shapes = <<>> THEN [nodes |-> <<>>, k |-> k, pt |-> pt]
    ELSE LET first == Build(Head(shapes), FALSE, k, pt, texts, off)
             rest == BuildKids(Tail(shapes), first.k, first.pt, texts, off)
         IN [nodes |-> <<first.node>> \o rest.nodes, k |-> rest.k, pt |-> rest.pt]

Origin == [row |-> 0, column |-> 0]

TreesOver(texts) ==
    {Build(s, TRUE, 0, Origin, texts, off).node : s \in Shapes, off \in 0..(Len(texts) - 1)}

\* root nodes the parser returns for well-formed sources
ParsedTrees == TreesOver(ValidTexts)
\* nodes a caller may hand to node_to_dict and print_tree
AnyTrees == TreesOver(AnyTexts)

child_count(node) == Len(node.children)

RECURSIVE Height(_)
Height(node) ==
    IF child_count(node) = 0 THEN 1
    ELSE 1 + (CHOOSE h \in {Height(node.children[i]) : i \in 1..Len(node.children)} :
                \A j \in 1..Len(node.children) : Height(node.children[j]) <= h)

-----------------------------------------------------------------------------
(* node_to_dict and print_tree *)

Return(v) == [ok |-> TRUE, val |-> v]
Raise(e) == [ok |-> FALSE, exc |-> e]

\* node_to_dict with the text of every node emitted, not only of a leaf
RECURSIVE node_to_dict_text_always(_)
node_to_dict_text_always(node) ==
    LET result == [type |-> node.type,
                   start |-> <<node.start_point.row, node.start_point.column>>,
                   end |-> <<node.end_point.row, node.end_point.column>>]
    IN IF ~IsValidUtf8(node.text) THEN Raise("UnicodeDecodeError")
       ELSE IF child_count(node) = 0
       THEN Return(result @@ [text |-> Utf8Decode(node.text)])
       ELSE
           LET kids == [i \in 1..Len(node.children) |->
                           node_to_dict_text_always(node.children[i])]
           IN Return(result @@ [text |-> Utf8Decode(node.text),
                                children |-> [i \in 1..Len(kids) |-> kids[i].val]])

\* node_to_dict with the children emitted in reverse order
RECURSIVE node_to_dict_reversed(_)
node_to_dict_reversed(node) ==
    LET result == [type |-> node.type,
                   start |-> <<node.start_point.row, node.start_point.column>>,
                   end |-> <<node.end_point.row, node.end_point.column>>]
        n == Len(node.children)
    IN IF child_count(node) = 0 THEN
           IF IsValidUtf8(node.text)
           THEN Return(result @@ [text |-> Utf8Decode(node.text)])
           ELSE Raise("UnicodeDecodeError")
       ELSE
           LET kids == [i \in 1..n |-> node_to_dict_reversed(node.children[n + 1 - i])]
           IN IF \E i \in 1..n : ~kids[i].ok
              THEN Raise("UnicodeDecodeError")
              ELSE Return(result @@ [children |-> [i \in 1..n |-> kids[i].val]])

\* node_to_dict: the record of a node, or the exception that leaves it
RECURSIVE node_to_dict(_)
node_to_dict(node) ==
    LET result == [type |-> node.type,
                   start |-> <<node.start_point.row, node.start_point.column>>,
                   end |-> <<node.end_point.row, node.end_point.column>>]
    IN IF child_count(node) = 0 THEN
           IF IsValidUtf8(node.text)
           THEN Return(result @@ [text |-> Utf8Decode(node.text)])
           ELSE Raise("UnicodeDecodeError")
       ELSE
           LET kids == [i \in 1..Len(node.children) |-> node_to_dict(node.children[i])]
           IN IF \E i \in 1..Len(kids) : ~kids[i].ok
              THEN Raise("UnicodeDecodeError")
              ELSE Return(result @@ [children |-> [i \in 1..Len(kids) |-> kids[i].val]])

\* print_tree with the text of a leaf printed raw instead of through !r
RECURSIVE print_tree_raw(_, _)
print_tree_raw(node, indent) ==
    LET prefix == Spaces(2 * indent)
    IN IF child_count(node) = 0 THEN
           IF IsValidUtf8(node.text)
           THEN Return(prefix \o TypeChars(node.type) \o <<58, 32>>
                       \o <<39>> \o Utf8Decode(node.text) \o <<39>>)
           ELSE Raise("UnicodeDecodeError")
       ELSE
           LET kids == [i \in 1..Len(node.children) |->
                           print_tree_raw(node.children[i], indent + 1)]
           IN IF \E i \in 1..Len(kids) : ~kids[i].ok
              THEN Raise("UnicodeDecodeError")
              ELSE Return(Join(<<prefix \o TypeChars(node.type)>>
                               \o [i \in 1..Len(kids) |-> kids[i].val], 10))

\* print_tree: the rendering of a node, or the exception that leaves it
RECURSIVE print_tree(_, _)
print_tree(node, indent) ==
    LET prefix == Spaces(2 * indent)
    IN IF child_count(node) = 0 THEN
           IF IsValidUtf8(node.text)
           THEN Return(prefix \o TypeChars(node.type) \o <<58, 32>>
                       \o PyRepr(Utf8Decode(node.text)))
           ELSE Raise("UnicodeDecodeError")
       ELSE
           LET kids == [i \in 1..Len(node.children) |->
                           print_tree(node.children[i], indent + 1)]
           IN IF \E i \in 1..Len(kids) : ~kids[i].ok
              THEN Raise("UnicodeDecodeError")
              ELSE Return(Join(<<prefix \o TypeChars(node.type)>>
                               \o [i \in 1..Len(kids) |-> kids[i].val], 10))

\* the deepest nesting of calls a traversal of `node` reaches: each of
\* node_to_dict and print_tree calls itself once per child, inside its own call
CallDepth(node) == Height(node)

-----------------------------------------------------------------------------
(* The traversals called on an arbitrary node *)

NoResult == [ok |-> FALSE, exc |-> "not called"]

InitFn ==
    /\ fpc = "ready"
    /\ fnode \in AnyTrees
    /\ fresult = NoResult

CallNodeToDict ==
    /\ fpc = "ready"
    /\ UNCHANGED <<mainVars, cnVars>>
    /\ fresult' = node_to_dict(fnode)
    /\ fpc' = "node_to_dict"
    /\ UNCHANGED fnode

CallPrintTree ==
    /\ fpc = "ready"
    /\ UNCHANGED <<mainVars, cnVars>>
    /\ fresult' = print_tree(fnode, 0)
    /\ fpc' = "print_tree"
    /\ UNCHANGED fnode

-----------------------------------------------------------------------------
(* extract_python_ast.main *)

\* stands for the built-in sample: a, newline, e-acute
SAMPLE_CODE == <<97, 10, 233>>

Missing == [exists |-> FALSE]
File(bytes) == [exists |-> TRUE, bytes |-> bytes]

\* parser.parse(bytes).root_node: a tree over exactly these bytes
ParseTrees(bytes) == {t \in ParsedTrees : t.text = bytes}

\* json.dumps(ast_dict, ...): the document, as its members in the order written
json_dumps(d) ==
    << [key |-> "source_code", value |-> d.source_code], [key |-> "ast", value |-> d.ast] >>

Artifact(parts) == [exists |-> TRUE, parts |-> parts]

\* what an earlier run without arguments left at OUTPUT_FILE
PreviousArtifact ==
    LET t == CHOOSE t \in ParseTrees(Utf8Encode(SAMPLE_CODE)) : Len(t.children) = 3
    IN Artifact(json_dumps([source_code |-> SAMPLE_CODE, ast |-> node_to_dict(t).val]))

NoTree == [type |-> "none"]
NoDict == [source_code |-> <<>>]

InitMain ==
    /\ pc = "start"
    /\ argv \in {<<>>, <<"input.py">>}
    /\ srcFile \in IF argv = <<>> THEN {Missing}
                   ELSE {Missing, File(<<255>>)} \cup {File(t.text) : t \in ParsedTrees}
    /\ code = <<>>
    /\ tree = NoTree
    /\ readable = <<>>
    /\ ast_dict = NoDict
    /\ outputFile0 \in {Missing, PreviousArtifact}
    /\ outputFile = outputFile0
    /\ exitStatus = -1
    /\ exc = "none"
    /\ log = <<>>
    /\ frames = [print_tree |-> 0, node_to_dict |-> 0]

\* sys.exit(status), or an exception no one catches (status 1)
Exit(status, e) ==
    /\ pc' = "exit"
    /\ exitStatus' = status
    /\ exc' = e

\* ReadSource without the check of line 75: a missing path falls back to the sample
ReadSource_NoExistsCheck ==
    /\ pc = "start"
    /\ UNCHANGED <<fnVars, cnVars>>
    /\ IF argv # <<>> /\ srcFile.exists THEN
           IF ~IsValidUtf8(srcFile.bytes) THEN
               /\ Exit(1, "UnicodeDecodeError")
               /\ UNCHANGED <<code, log>>
           ELSE
               /\ code' = Utf8Decode(srcFile.bytes)
               /\ log' = Append(log, "read")
               /\ pc' = "parse"
               /\ UNCHANGED <<exitStatus, exc>>
       ELSE
           /\ code' = SAMPLE_CODE
           /\ log' = Append(log, "read")
           /\ pc' = "parse"
           /\ UNCHANGED <<exitStatus, exc>>
    /\ UNCHANGED <<argv, srcFile, tree, readable, ast_dict, outputFile, outputFile0, frames>>

\* lines 73-82: choose the source
ReadSource ==
    /\ pc = "start"
    /\ UNCHANGED <<fnVars, cnVars>>
    /\ IF argv # <<>> THEN
           IF ~srcFile.exists THEN
               /\ Exit(1, "SystemExit")
               /\ UNCHANGED <<code, log>>
           ELSE IF ~IsValidUtf8(srcFile.bytes) THEN
               /\ Exit(1, "UnicodeDecodeError")
               /\ UNCHANGED <<code, log>>
           ELSE
               /\ code' = Utf8Decode(srcFile.bytes)
               /\ log' = Append(log, "read")
               /\ pc' = "parse"
               /\ UNCHANGED <<exitStatus, exc>>
       ELSE
           /\ code' = SAMPLE_CODE
           /\ log' = Append(log, "read")
           /\ pc' = "parse"
           /\ UNCHANGED <<exitStatus, exc>>
    /\ UNCHANGED <<argv, srcFile, tree, readable, ast_dict, outputFile, outputFile0, frames>>

\* line 78: read_text fails on a file that exists (OSError)
ReadSourceFails ==
    /\ pc = "start"
    /\ UNCHANGED <<fnVars, cnVars>>
    /\ argv # <<>>
    /\ srcFile.exists
    /\ Exit(1, "OSError")
    /\ UNCHANGED <<argv, srcFile, code, tree, readable, ast_dict, outputFile,
                   outputFile0, log, frames>>

\* Parse followed at once by the serializer, the rendering left for later
Parse_ThenSerialize ==
    /\ pc = "parse"
    /\ UNCHANGED <<fnVars, cnVars>>
    /\ tree' \in ParseTrees(Utf8Encode(code))
    /\ log' = Append(log, "parse")
    /\ pc' = "serialize"
    /\ UNCHANGED <<argv, srcFile, code, readable, ast_dict, outputFile, outputFile0,
                   exitStatus, exc, frames>>

\* lines 84-85
Parse ==
    /\ pc = "parse"
    /\ UNCHANGED <<fnVars, cnVars>>
    /\ tree' \in ParseTrees(Utf8Encode(code))
    /\ log' = Append(log, "parse")
    /\ pc' = "render"
    /\ UNCHANGED <<argv, srcFile, code, readable, ast_dict, outputFile, outputFile0,
                   exitStatus, exc, frames>>

\* lines 88-90
Render ==
    /\ pc = "render"
    /\ UNCHANGED <<fnVars, cnVars>>
    /\ LET r == print_tree(tree, 0)
       IN IF r.ok THEN
              /\ readable' = r.val
              /\ log' = Append(log, "render")
              /\ pc' = "serialize"
              /\ UNCHANGED <<exitStatus, exc>>
          ELSE
              /\ Exit(1, r.exc)
              /\ UNCHANGED <<readable, log>>
    /\ frames' = [frames EXCEPT !.print_tree = CallDepth(tree)]
    /\ UNCHANGED <<argv, srcFile, code, tree, ast_dict, outputFile, outputFile0>>

\* lines 93-96
Serialize ==
    /\ pc = "serialize"
    /\ UNCHANGED <<fnVars, cnVars>>
    /\ LET r == node_to_dict(tree)
       IN IF r.ok THEN
              /\ ast_dict' = [source_code |-> code, ast |-> r.val]
              /\ log' = Append(log, "serialize")
              /\ pc' = "mkdir"
              /\ UNCHANGED <<exitStatus, exc>>
          ELSE
              /\ Exit(1, r.exc)
              /\ UNCHANGED <<ast_dict, log>>
    /\ frames' = [frames EXCEPT !.node_to_dict = CallDepth(tree)]
    /\ UNCHANGED <<argv, srcFile, code, tree, readable, outputFile, outputFile0>>

\* line 97
MakeDirs ==
    /\ pc = "mkdir"
    /\ UNCHANGED <<fnVars, cnVars>>
    /\ pc' = "open"
    /\ UNCHANGED <<argv, srcFile, code, tree, readable, ast_dict, outputFile,
                   outputFile0, exitStatus, exc, log, frames>>

\* line 97: mkdir fails (OSError)
MakeDirsFails ==
    /\ pc = "mkdir"
    /\ UNCHANGED <<fnVars, cnVars>>
    /\ Exit(1, "OSError")
    /\ UNCHANGED <<argv, srcFile, code, tree, readable, ast_dict, outputFile,
                   outputFile0, log, frames>>

\* line 98, write_text: open(mode "w") creates the file or truncates it
OpenOutput ==
    /\ pc = "open"
    /\ UNCHANGED <<fnVars, cnVars>>
    /\ outputFile' = Artifact(<<>>)
    /\ log' = Append(log, "write")
    /\ pc' = "write"
    /\ UNCHANGED <<argv, srcFile, code, tree, readable, ast_dict, outputFile0,
                   exitStatus, exc, frames>>

\* line 98: open fails (OSError); the file is not touched
OpenOutputFails ==
    /\ pc = "open"
    /\ UNCHANGED <<fnVars, cnVars>>
    /\ Exit(1, "OSError")
    /\ UNCHANGED <<argv, srcFile, code, tree, readable, ast_dict, outputFile,
                   outputFile0, log, frames>>

\* line 98, write_text: the document reaches the file piece by piece;
\* after the last piece the file is closed and line 99 ends the run
WriteOutput ==
    /\ pc = "write"
    /\ UNCHANGED <<fnVars, cnVars>>
    /\ LET doc == json_dumps(ast_dict)
           n == Len(outputFile.parts) + 1
       IN /\ outputFile' = Artifact(Append(outputFile.parts, doc[n]))
          /\ IF n = Len(doc) THEN Exit(0, "none") ELSE UNCHANGED <<pc, exitStatus, exc>>
    /\ UNCHANGED <<argv, srcFile, code, tree, readable, ast_dict, outputFile0, log, frames>>

\* line 98: a write fails (disk full) or the process is interrupted
WriteOutputFails ==
    /\ pc = "write"
    /\ UNCHANGED <<fnVars, cnVars>>
    /\ Exit(1, "OSError")
    /\ UNCHANGED <<argv, srcFile, code, tree, readable, ast_dict, outputFile,
                   outputFile0, log, frames>>

main ==
    \/ ReadSource \/ ReadSourceFails \/ Parse \/ Render \/ Serialize
    \/ MakeDirs \/ MakeDirsFails \/ OpenOutput \/ OpenOutputFails
    \/ WriteOutput \/ WriteOutputFails

-----------------------------------------------------------------------------
(* extract_codenet_data *)

\* bytes.decode("utf-8", errors="replace"): an ill-formed byte becomes U+FFFD
RECURSIVE Utf8DecodeReplace(_)
Utf8DecodeReplace(b) ==
    IF b = <<>> THEN <<>>
    ELSE IF b[1] < 128 THEN <<b[1]>> \o Utf8DecodeReplace(Tail(b))
    ELSE IF b[1] >= 194 /\ b[1] <= 223 /\ Len(b) >= 2 /\ b[2] >= 128 /\ b[2] <= 191
         THEN <<(b[1] - 192) * 64 + (b[2] - 128)>> \o Utf8DecodeReplace(Tail(Tail(b)))
    ELSE <<65533>> \o Utf8DecodeReplace(Tail(b))

\* pd.to_numeric(..., errors="coerce") on a code_size cell: whether it is a
\* number (not NaN), and the number
IsNumeric(cell) == cell \in {"5", "12"}
ToNumeric(cell) == IF cell = "5" THEN 5 ELSE 12

Languages == {"Python", "Go"}

\* the two submissions of each language a metadata table lists, in the
\* order of its rows
SubmissionIds == <<"s1", "s2", "s3", "s4">>
LanguageOf(sid) == IF sid \in {"s1", "s3"} THEN "Python" ELSE "Go"
\* the bytes of a submission's source file, where the file exists
FileBytes(sid) ==
    CASE sid = "s1" -> <<112, 49>>
      [] sid = "s2" -> <<103, 255>>
      [] sid = "s3" -> <<112, 195, 169>>
      [] sid = "s4" -> <<103, 52>>

\* what a metadata row and its file can be: the first row of a language
\* any of these, the second one of the first two or the last
RowKinds ==
    << [status |-> "Accepted", code_size |-> "5", file |-> TRUE],
       [status |-> "Accepted", code_size |-> "12", file |-> TRUE],
       [status |-> "Accepted", code_size |-> "5", file |-> FALSE],
       [status |-> "Accepted", code_size |-> "n/a", file |-> TRUE],
       [status |-> "Wrong Answer", code_size |-> "5", file |-> TRUE] >>
KindsOfRow(i) == IF i <= 2 THEN Range(RowKinds) ELSE {RowKinds[1], RowKinds[2], RowKinds[5]}

Row(sid, kind) ==
    [submission_id |-> sid, language |-> LanguageOf(sid), status |-> kind.status,
     code_size |-> kind.code_size]

\* The metadata table of a problem (meta), its language directories (dirs)
\* and the submission files in them (files).  Where a language directory is
\* missing, the table lists accepted submissions all the same.
ProblemData ==
    LET table(k) == [exists |-> TRUE,
                     rows |-> [i \in 1..4 |-> Row(SubmissionIds[i], k[i])]]
        bothDirs ==
            { [meta |-> table(k), dirs |-> Languages,
               files |-> {SubmissionIds[i] : i \in {j \in 1..4 : k[j].file}}] :
              k \in {f \in [1..4 -> Range(RowKinds)] : \A i \in 1..4 : f[i] \in KindsOfRow(i)} }
        fewerDirs ==
            { [meta |-> table([i \in 1..4 |-> RowKinds[1]]), dirs |-> d,
               files |-> {sid \in Range(SubmissionIds) : LanguageOf(sid) \in d}] :
              d \in (SUBSET Languages) \ {Languages} }
        noMeta ==
            { [meta |-> Missing, dirs |-> Languages, files |-> Range(SubmissionIds)] }
    IN bothDirs \cup fewerDirs \cup noMeta

NoProblem == [meta |-> Missing, dirs |-> {}, files |-> {}]

None == [found |-> FALSE]
Some(text) == [found |-> TRUE, text |-> text]

\* read_accepted_submissions: the accepted rows of a language, in table order
read_accepted_submissions(p, language) ==
    IF ~p.meta.exists THEN <<>>
    ELSE SelectSeq(p.meta.rows,
                   LAMBDA r : r.language = language /\ r.status = "Accepted")

\* the orders sort_values("code_size") may leave the rows in: ascending, rows
\* of equal size in either order
SortValues(rows) ==
    LET n == Len(rows)
        perms == {f \in [1..n -> 1..n] : \A i, j \in 1..n : i # j => f[i] # f[j]}
    IN { [i \in 1..n |-> rows[f[i]]] : f \in
           {g \in perms : \A i, j \in 1..n :
               i < j => ToNumeric(rows[g[i]].code_size) <= ToNumeric(rows[g[j]].code_size)} }

\* lines 67-77: the text of the first row whose file exists
RECURSIVE FirstReadable(_, _)
FirstReadable(rows, p) ==
    IF rows = <<>> THEN None
    ELSE IF Head(rows).submission_id \notin p.files THEN FirstReadable(Tail(rows), p)
    ELSE Some(Utf8DecodeReplace(FileBytes(Head(rows).submission_id)))

\* shortest_accepted_code without the sort of line 65
shortest_accepted_code_unsorted(p, language) ==
    LET accepted == read_accepted_submissions(p, language)
    IN IF accepted = <<>> THEN {None}
       ELSE {FirstReadable(SelectSeq(accepted, LAMBDA r : IsNumeric(r.code_size)), p)}

\* shortest_accepted_code: the values the call may return
shortest_accepted_code(p, language) ==
    LET accepted == read_accepted_submissions(p, language)
    IN IF accepted = <<>> THEN {None}
       ELSE {FirstReadable(rows, p) :
                rows \in SortValues(SelectSeq(accepted, LAMBDA r : IsNumeric(r.code_size)))}

\* read_description: the description file is not part of the model's inputs
read_description(p) == <<>>

InitCn ==
    /\ cpc = "start"
    /\ problem_list \in {Missing} \cup {[exists |-> TRUE, ids |-> [i \in 1..n |-> i]] :
                                        n \in 0..MaxProblems}
    /\ idx = 0
    /\ cur = NoProblem
    /\ out = <<>>

\* lines 92-118: read the problem list, open the output file
StartExtract ==
    /\ cpc = "start"
    /\ UNCHANGED <<mainVars, fnVars>>
    /\ cpc' = IF problem_list.exists THEN "loop" ELSE "exit"
    /\ out' = <<>>
    /\ UNCHANGED <<problem_list, idx, cur>>

\* lines 120-147: one round of the loop, on the next entry of problem_ids
ProcessProblem ==
    /\ cpc = "loop"
    /\ UNCHANGED <<mainVars, fnVars>>
    /\ idx < Len(problem_list.ids)
    /\ \E p \in ProblemData :
          /\ cur' = p
          /\ IF "Python" \notin p.dirs \/ "Go" \notin p.dirs THEN out' = out
             ELSE \E python_code \in shortest_accepted_code(p, "Python"),
                     go_code \in shortest_accepted_code(p, "Go") :
                    IF ~python_code.found \/ ~go_code.found THEN out' = out
                    ELSE out' = Append(out,
                                  [problem_id |-> problem_list.ids[idx + 1],
                                   python_code |-> python_code.text,
                                   go_code |-> go_code.text,
                                   problem_description |-> read_description(p)])
    /\ idx' = idx + 1
    /\ UNCHANGED <<cpc, problem_list>>

\* lines 149-153: the list is exhausted
FinishExtract ==
    /\ cpc = "loop"
    /\ UNCHANGED <<mainVars, fnVars>>
    /\ idx = Len(problem_list.ids)
    /\ cpc' = "done"
    /\ UNCHANGED <<problem_list, idx, cur, out>>

-----------------------------------------------------------------------------
(* Specifications *)

IdleMain ==
    /\ pc = "idle" /\ argv = <<>> /\ srcFile = Missing /\ code = <<>>
    /\ tree = NoTree /\ readable = <<>> /\ ast_dict = NoDict
    /\ outputFile = Missing /\ outputFile0 = Missing /\ exitStatus = -1 /\ exc = "none"
    /\ log = <<>> /\ frames = [print_tree |-> 0, node_to_dict |-> 0]

IdleFn == fpc = "idle" /\ fnode = NoTree /\ fresult = NoResult

IdleCn == cpc = "idle" /\ problem_list = Missing /\ idx = 0 /\ cur = NoProblem /\ out = <<>>

\* one run of extract_python_ast.py
Init == InitMain /\ IdleFn /\ IdleCn
Next == main
Spec == Init /\ [][Next]_vars

\* node_to_dict and print_tree applied to a node
FnInit == IdleMain /\ InitFn /\ IdleCn
FnNext == CallNodeToDict \/ CallPrintTree
SpecFn == FnInit /\ [][FnNext]_vars

\* one run of extract_codenet_data.py
CnInit == IdleMain /\ IdleFn /\ InitCn
CnNext == StartExtract \/ ProcessProblem \/ FinishExtract
SpecCodeNet == CnInit /\ [][CnNext]_vars

-----------------------------------------------------------------------------
(* Claims about extract_python_ast.py *)

Has(l, e) == \E i \in 1..Len(l) : l[i] = e

\* grammar symbols that name syntactic constructs, not tokens
NonTerminalTypes == {"module", "block"}

RECURSIVE OneKeyAndChildlessAsList(_, _)
OneKeyAndChildlessAsList(rec, node) ==
    /\ ("text" \in DOMAIN rec) # ("children" \in DOMAIN rec)
    /\ (node.type \in NonTerminalTypes /\ child_count(node) = 0)
          => ("children" \in DOMAIN rec /\ rec.children = <<>>)
    /\ "children" \in DOMAIN rec =>
          /\ Len(rec.children) = Len(node.children)
          /\ \A i \in 1..Len(rec.children) :
                OneKeyAndChildlessAsList(rec.children[i], node.children[i])

RECURSIVE OneKeyAndChildlessAsText(_, _)
OneKeyAndChildlessAsText(rec, node) ==
    /\ ("text" \in DOMAIN rec) # ("children" \in DOMAIN rec)
    /\ "text" \in DOMAIN rec <=> child_count(node) = 0
    /\ "children" \in DOMAIN rec =>
          /\ rec.children # <<>>
          /\ Len(rec.children) = Len(node.children)
          /\ \A i \in 1..Len(rec.children) :
                OneKeyAndChildlessAsText(rec.children[i], node.children[i])

C2_MissingInputTouchesNothing ==
    (argv # <<>> /\ ~srcFile.exists) =>
        /\ pc \in {"start", "exit"}
        /\ pc = "exit" => (exitStatus = 1 /\ exc = "SystemExit")
        /\ log = <<>>
        /\ tree = NoTree
        /\ outputFile = outputFile0

C2_Witness ==
    /\ argv # <<>> /\ ~srcFile.exists
    /\ pc = "exit"
    /\ outputFile0 = PreviousArtifact

\* C4: a run that fails leaves at OUTPUT_FILE the complete previous artifact
\* or no file, never a part of the new document.
C4_FailedRunLeavesNoPartialArtifact ==
    (pc = "exit" /\ exitStatus # 0) =>
        (outputFile = outputFile0 \/ ~outputFile.exists)

RECURSIVE Isomorphic(_, _)
Isomorphic(rec, node) ==
    /\ rec.type = node.type
    /\ rec.start = <<node.start_point.row, node.start_point.column>>
    /\ rec.end = <<node.end_point.row, node.end_point.column>>
    /\ IF node.children = <<>> THEN
           /\ DOMAIN rec = {"type", "start", "end", "text"}
           /\ rec.text = Utf8Decode(node.text)
       ELSE
           /\ DOMAIN rec = {"type", "start", "end", "children"}
           /\ Len(rec.children) = Len(node.children)
           /\ \A i \in 1..Len(node.children) : Isomorphic(rec.children[i], node.children[i])

\* C5: the record node_to_dict returns is isomorphic to the tree: type, start
\* and end [row, column] of each node, the children's records in source
\* order and as many as the node has children, the decoded text of each leaf.
\* Once the run is past line 95 the record is there: the call returned.
C5_RecordIsomorphicToTree ==
    (tree # NoTree /\ pc \notin {"render", "serialize"}) =>
        (Has(log, "serialize") /\ Isomorphic(ast_dict.ast, tree))

C5_Witness ==
    /\ Has(log, "serialize")
    /\ Height(tree) >= 3
    /\ Len(tree.children) >= 2
    /\ tree.children[1] # tree.children[2]

\* the nodes of a tree in preorder, each with its depth
RECURSIVE Preorder(_, _)
Preorder(node, depth) ==
    <<[node |-> node, depth |-> depth]>>
    \o Concat([i \in 1..Len(node.children) |-> Preorder(node.children[i], depth + 1)])

\* the lines of a text: what lies between its newline characters
SplitLines(s) ==
    LET nl == {i \in 1..Len(s) : s[i] = 10}
        cut(k) == IF k = 0 THEN 0
                  ELSE IF k = Cardinality(nl) + 1 THEN Len(s) + 1
                  ELSE CHOOSE i \in nl : Cardinality({j \in nl : j < i}) = k - 1
    IN [k \in 1..(Cardinality(nl) + 1) |-> SubSeq(s, cut(k - 1) + 1, cut(k) - 1)]

\* text in quoted form: between two equal quote characters, every newline,
\* backslash and enclosed quote character escaped
IsQuoted(s, text) ==
    /\ Len(s) >= 2
    /\ s[1] \in {34, 39}
    /\ s[Len(s)] = s[1]
    /\ SubSeq(s, 2, Len(s) - 1) = Concat([i \in 1..Len(text) |-> ReprChar(text[i], s[1])])

LineOf(line, node, depth) ==
    LET head == Spaces(2 * depth) \o TypeChars(node.type)
    IN IF node.children = <<>> THEN
           /\ Len(line) >= Len(head) + 2
           /\ SubSeq(line, 1, Len(head) + 2) = head \o <<58, 32>>
           /\ IsQuoted(SubSeq(line, Len(head) + 3, Len(line)), Utf8Decode(node.text))
       ELSE line = head

\* C6: print_tree returns one line per node, in preorder; the line of a node
\* at depth d starts with 2*d spaces; a leaf's line is its type, ": " and its
\* decoded text in quoted form; a non-terminal's line is its type alone, and
\* the lines of its children follow at depth d+1 in source order.  Once the
\* run is past line 88 the rendering is there: the call returned.
C6_OneLinePerNodeInPreorder ==
    (tree # NoTree /\ pc # "render") =>
        LET lines == SplitLines(readable)
            nodes == Preorder(tree, 0)
        IN /\ Has(log, "render")
           /\ Len(lines) = Len(nodes)
           /\ \A i \in 1..Len(nodes) : LineOf(lines[i], nodes[i].node, nodes[i].depth)

C6_Witness ==
    /\ Has(log, "render")
    /\ Height(tree) >= 3
    /\ \E i \in 1..Len(tree.children) : tree.children[i].text = <<10>>

\* C8: the traversals do not nest calls more deeply for deeper trees: each
\* runs in the one call that started it, whatever the tree.
C8_CallNestingIndependentOfDepth ==
    /\ frames.print_tree <= 1
    /\ frames.node_to_dict <= 1

Pipeline == <<"read", "parse", "render", "serialize", "write">>

\* C10: the steps of a run happen in the order read, parse, render,
\* serialize, write, each at most once; the artifact is touched only after
\* the parse and both traversals have completed on the tree of this run.
C10_StepsInFixedOrder ==
    /\ Len(log) <= Len(Pipeline)
    /\ log = SubSeq(Pipeline, 1, Len(log))
    /\ outputFile # outputFile0 => Has(log, "write")
    /\ Has(log, "write") =>
          /\ tree \in ParseTrees(Utf8Encode(code))
          /\ readable = print_tree(tree, 0).val
          /\ ast_dict = [source_code |-> code, ast |-> node_to_dict(tree).val]

C10_Witness ==
    /\ pc = "exit" /\ exitStatus = 0
    /\ log = Pipeline
    /\ outputFile = Artifact(json_dumps(ast_dict))

-----------------------------------------------------------------------------
(* Claims about the traversals on arbitrary nodes *)

\* C3: whatever bytes the leaves hold, node_to_dict and print_tree return and
\* do not raise.
C3_TraversalsNeverRaise ==
    fpc # "ready" => fresult.ok

-----------------------------------------------------------------------------
(* Claims about extract_codenet_data.py *)

\* the records written for the entry consumed last
LastRecords ==
    SelectSeq(out, LAMBDA r : r.problem_id = problem_list.ids[idx])

AcceptedRows(p, language) ==
    IF ~p.meta.exists THEN {}
    ELSE {r \in Range(p.meta.rows) : r.language = language /\ r.status = "Accepted"}

\* the accepted submissions the extractor can use: code_size a number, the
\* source file present
UsableRows(p, language) ==
    {r \in AcceptedRows(p, language) :
        IsNumeric(r.code_size) /\ r.submission_id \in p.files}

Smallest(rows) ==
    {r \in rows : IsNumeric(r.code_size) /\
        \A q \in rows : IsNumeric(q.code_size) =>
            ToNumeric(r.code_size) <= ToNumeric(q.code_size)}

TextOf(r) == Utf8DecodeReplace(FileBytes(r.submission_id))

====
